---- MODULE Spec2Model ----
(***************************************************************************)
(* A model of mini-reconciliation: the CSV ingestion gateway, the date     *)
(* filters, the multi-pass matcher of ReconciliationUseCase.Reconcile, the *)
(* discrepancy evaluation of processMatch and the report assembly.         *)
(*                                                                         *)
(* Amounts are float64 in the source.  The model keeps them as integers    *)
(* in thousandths of a currency unit (mils), so 0.001 is 1 and one cent    *)
(* is 10.  A time.Time is a pair (seconds, nanoseconds), as in Go.         *)
(***************************************************************************)
EXTENDS Integers, Sequences, FiniteSets, TLC

\* ----------------------------------------------------------------------
\* Bounds of the model
\* ----------------------------------------------------------------------
MaxSys == 2
MaxBank == 2

\* ----------------------------------------------------------------------
\* time.Time and time.Duration
\* ----------------------------------------------------------------------
SecondsPerDay == 86400
NanosPerSecond == 1000000000

Time(sec, nsec) == [sec |-> sec, nsec |-> nsec]

\* Midnight UTC of calendar day d, d counted from the epoch of the model.
Date(d) == Time(d * SecondsPerDay, 0)

\* A duration of sec seconds and nsec nanoseconds (d / 1e9 and d % 1e9).
Duration(sec, nsec) == [sec |-> sec, nsec |-> nsec]

Hour == Duration(3600, 0)
Nanosecond == Duration(0, 1)

\* k * d for a duration d
DurationTimes(k, d) ==
    LET n == k * d.nsec
    IN  Duration(k * d.sec + (n \div NanosPerSecond), n % NanosPerSecond)

\* a - b for durations a >= b
DurationMinus(a, b) ==
    IF a.nsec >= b.nsec
    THEN Duration(a.sec - b.sec, a.nsec - b.nsec)
    ELSE Duration(a.sec - b.sec - 1, a.nsec + NanosPerSecond - b.nsec)

\* Time.Add
TimeAdd(t, d) ==
    LET n == t.nsec + d.nsec
    IN  IF n >= NanosPerSecond
        THEN Time(t.sec + d.sec + 1, n - NanosPerSecond)
        ELSE Time(t.sec + d.sec, n)

\* Time.Equal, Time.After, Time.Before
TimeEqual(t, u) == t.sec = u.sec /\ t.nsec = u.nsec
TimeAfter(t, u) == t.sec > u.sec \/ (t.sec = u.sec /\ t.nsec > u.nsec)
TimeBefore(t, u) == t.sec < u.sec \/ (t.sec = u.sec /\ t.nsec < u.nsec)

\* Time.Format("2006-01-02") of a UTC time: the calendar day
FormatDate(t) == t.sec \div SecondsPerDay

\* ----------------------------------------------------------------------
\* Strings that are searched are sequences of characters
\* ----------------------------------------------------------------------
\* strings.Contains
Contains(s, substr) ==
    \E k \in 0..(Len(s) - Len(substr)) : SubSeq(s, k + 1, k + Len(substr)) = substr

\* the literal "trxID:"
TrxIDToken == <<"t", "r", "x", "I", "D", ":">>

\* ----------------------------------------------------------------------
\* domain
\* ----------------------------------------------------------------------
DEBIT == "DEBIT"
CREDIT == "CREDIT"

SystemTransaction(id, amount, type, t) ==
    [TrxID |-> id, Amount |-> amount, Type |-> type, TransactionTime |-> t]

Abs(x) == IF x < 0 THEN -x ELSE x

\* mutant: the normalized amount keeps the sign of the amount
NormalizeBankTransactionSigned(row, source) ==
    [UniqueIdentifier |-> row.id,
     Amount           |-> row.amount,
     Date             |-> Date(row.day),
     Description      |-> row.description,
     BankSource       |-> source,
     Type             |-> IF row.amount < 0 THEN DEBIT ELSE CREDIT,
     NormalizedAmount |-> row.amount]

\* The normalisation of a bank row at ingestion
NormalizeBankTransaction(row, source) ==
    [UniqueIdentifier |-> row.id,
     Amount           |-> row.amount,
     Date             |-> Date(row.day),
     Description      |-> row.description,
     BankSource       |-> source,
     Type             |-> IF row.amount < 0 THEN DEBIT ELSE CREDIT,
     NormalizedAmount |-> IF row.amount < 0 THEN Abs(row.amount) ELSE row.amount]

\* A slice that may be nil: Go's append keeps a nil slice nil when nothing
\* is appended to it.
NilSlice == [isNil |-> TRUE, items |-> <<>>]
\* mutant: the slice is declared and never made
MakeSliceNil == [isNil |-> TRUE, items |-> <<>>]
MakeSlice == [isNil |-> FALSE, items |-> <<>>]
AppendSlice(s, xs) ==
    IF xs = <<>> THEN s ELSE [isNil |-> FALSE, items |-> s.items \o xs]

\* ----------------------------------------------------------------------
\* The inputs: the content of the CSV files
\* ----------------------------------------------------------------------
T1 == <<"T", "1">>
T11 == <<"T", "1", "1">>
T2 == <<"T", "2">>
T3 == <<"T", "3">>
T4 == <<"T", "4">>

Ref(id) == <<"p", " ">> \o TrxIDToken \o id
NoRef == <<"a", "t", "m">>
\* a description that mentions two identifiers
Ref2(id1, id2) == Ref(id1) \o <<" ">> \o TrxIDToken \o id2

\* The reconciliation window of the run: calendar days 1 and 2
WindowStart == Date(1)
WindowEnd == Date(2)

\* The rows a system file is made of (trxID, amount, type, transactionTime)
SystemRows ==
    { SystemTransaction(T1, 1000, DEBIT, Date(1)),
      SystemTransaction(T11, 1004, DEBIT, TimeAdd(Date(1), DurationTimes(10, Hour))),
      SystemTransaction(T2, 2000, CREDIT, Date(2)),
      SystemTransaction(T3, 2000, CREDIT, TimeAdd(Date(2), Duration(84600, 0))),
      SystemTransaction(T4, 1000, DEBIT, Date(3)) }

\* The rows a bank file is made of (unique_identifier, amount, date, description)
BankRow(id, amount, day, description) ==
    [id |-> id, amount |-> amount, day |-> day, description |-> description]

BankRows ==
    { BankRow("B1", -1000, 1, Ref(T1)),
      BankRow("B2", -1000, 1, NoRef),
      BankRow("B1", -1050, 1, Ref(T11)),
      BankRow("B3", 2000, 2, NoRef),
      BankRow("B4", 1001, 2, Ref(T1)),
      BankRow("B5", -1000, 3, Ref(T4)),
      BankRow("B6", -1000, 1, Ref2(T1, T11)) }

RECURSIVE SeqsOver(_, _)
\* the sequences of at most n elements of S
SeqsOver(S, n) ==
    IF n = 0 THEN { <<>> }
    ELSE LET shorter == SeqsOver(S, n - 1)
         IN  shorter \cup
             { Append(q, x) : q \in { r \in shorter : Len(r) = n - 1 }, x \in S }

DistinctTrxIDs(q) == \A a, b \in 1..Len(q) : a # b => q[a].TrxID # q[b].TrxID
DistinctBankIDs(q) == \A a, b \in 1..Len(q) : a # b => q[a].id # q[b].id

\* System files: trxID is unique within the system file
SystemFiles ==
    { q \in SeqsOver(SystemRows, MaxSys) : DistinctTrxIDs(q) }

\* Bank files: unique_identifier is unique within one file, not across files
BankFilesOf(n) ==
    { q \in SeqsOver(BankRows, n) : DistinctBankIDs(q) }

SourceA == "bank_A.csv"
SourceB == "bank_B.csv"


\* ----------------------------------------------------------------------
\* State
\* ----------------------------------------------------------------------
VARIABLES
    systemFile,         \* the system CSV file on disk
    bankFiles,          \* the bank CSV files on disk, in the order of the paths
    firstRun,           \* history: the partition of an earlier run, if any
    pc,                 \* the position of Reconcile
    start, end,         \* the window Reconcile is called with
    calls,              \* history: the repository calls and their outcomes
    systemTransactions, \* what GetSystemTransactions returned
    bankTransactions,   \* what GetBankTransactions returned
    filteredSystemTx,
    filteredBankTx,
    report,
    matchedSystem,      \* the keys of the map matchedSystem
    matchedBank,        \* the keys of the map matchedBank
    bi, si,             \* the indices of the two loops of Pass 1
    systemMap,
    bankMap,
    toVisit,            \* the keys the running range loop has yet to visit
    pairs,              \* history: the pairs handed to processMatch
    ret                 \* what Reconcile returned

vars == <<systemFile, bankFiles, firstRun, pc, start, end, calls, systemTransactions, bankTransactions,
          filteredSystemTx, filteredBankTx, report, matchedSystem,
          matchedBank, bi, si, systemMap, bankMap, toVisit, pairs, ret>>

NoReport == [absent |-> TRUE]
NotReturned == [returned |-> FALSE, report |-> NoReport, err |-> "nil"]
EmptyMap == <<>>
NoRun == [absent |-> TRUE]

\* ----------------------------------------------------------------------
\* internal/usecase/reconciliation.go: the helpers
\* ----------------------------------------------------------------------
Epsilon == 1

\* fmt's %.2f of an amount: the nearest cent.  The amounts of the model
\* never lie halfway between two cents.
FormatAmount2(amount) ==
    IF amount >= 0 THEN (amount + 5) \div 10 ELSE -((5 - amount) \div 10)

buildGroupKey(t, txType, amount) == <<FormatDate(t), txType, FormatAmount2(amount)>>

\* mutant: the start of the window is exclusive
InWindowSystemAfterStart(txDate, s, e) ==
    /\ TimeAfter(txDate, s)
    /\ (TimeEqual(txDate, e)
        \/ TimeBefore(txDate, TimeAdd(e, DurationMinus(DurationTimes(24, Hour), Hour))))

InWindowSystem(txDate, s, e) ==
    /\ (TimeEqual(txDate, s) \/ TimeAfter(txDate, s))
    /\ (TimeEqual(txDate, e)
        \/ TimeBefore(txDate, TimeAdd(e, DurationMinus(DurationTimes(24, Hour), Hour))))

InWindowBank(txDate, s, e) ==
    /\ (TimeEqual(txDate, s) \/ TimeAfter(txDate, s))
    /\ (TimeEqual(txDate, e)
        \/ TimeBefore(txDate, TimeAdd(e, DurationMinus(DurationTimes(24, Hour), Nanosecond))))

\* mutant: no system transaction is filtered out
filterSystemTransactionsKeepAll(transactions, s, e) == transactions
filterSystemTransactionsByDate(transactions, s, e) ==
    SelectSeq(transactions, LAMBDA tx : InWindowSystem(tx.TransactionTime, s, e))

filterBankTransactionsByDate(transactions, s, e) ==
    SelectSeq(transactions, LAMBDA tx : InWindowBank(tx.Date, s, e))

RECURSIVE SumLens(_, _)
SumLens(m, keys) ==
    IF keys = {} THEN 0
    ELSE LET k == CHOOSE x \in keys : TRUE
         IN  Len(m[k]) + SumLens(m, keys \ {k})

countBankMapItems(m) == SumLens(m, DOMAIN m)

\* mutant: a difference of exactly epsilon is a discrepancy
processMatchInclusive(rep, sysTx, bankTx) ==
    LET counted == [rep EXCEPT !.ReconciliationSummary.MatchedTransactions = @ + 1]
        diff == Abs(sysTx.Amount - bankTx.NormalizedAmount)
    IN  IF diff >= Epsilon
        THEN [counted EXCEPT
                !.DiscrepantTransactions.Count = @ + 1,
                !.DiscrepantTransactions.TotalDiscrepancyValue = @ + diff,
                !.DiscrepantTransactions.Details =
                    AppendSlice(@, << [SystemTransaction |-> sysTx,
                                       BankTransaction |-> bankTx] >>)]
        ELSE counted

\* mutant: a discrepant pair is not counted as matched
processMatchCleanOnly(rep, sysTx, bankTx) ==
    LET diff == Abs(sysTx.Amount - bankTx.NormalizedAmount)
    IN  IF diff > Epsilon
        THEN [rep EXCEPT
                !.DiscrepantTransactions.Count = @ + 1,
                !.DiscrepantTransactions.TotalDiscrepancyValue = @ + diff,
                !.DiscrepantTransactions.Details =
                    AppendSlice(@, << [SystemTransaction |-> sysTx,
                                       BankTransaction |-> bankTx] >>)]
        ELSE [rep EXCEPT !.ReconciliationSummary.MatchedTransactions = @ + 1]

processMatch(rep, sysTx, bankTx) ==
    LET counted == [rep EXCEPT !.ReconciliationSummary.MatchedTransactions = @ + 1]
        diff == Abs(sysTx.Amount - bankTx.NormalizedAmount)
    IN  IF diff > Epsilon
        THEN [counted EXCEPT
                !.DiscrepantTransactions.Count = @ + 1,
                !.DiscrepantTransactions.TotalDiscrepancyValue = @ + diff,
                !.DiscrepantTransactions.Details =
                    AppendSlice(@, << [SystemTransaction |-> sysTx,
                                       BankTransaction |-> bankTx] >>)]
        ELSE counted

\* m[key] = append(m[key], tx) on a Go map
MapAppend(m, key, tx) ==
    [k \in (DOMAIN m) \cup {key} |->
        IF k = key
        THEN (IF key \in DOMAIN m THEN Append(m[key], tx) ELSE <<tx>>)
        ELSE m[k]]

\* delete(m, key)
MapDelete(m, key) == [k \in (DOMAIN m) \ {key} |-> m[k]]

RECURSIVE GroupSystemAll(_, _, _)
\* mutant: the records claimed by Pass 1 are grouped again
GroupSystemAll(txs, claimed, m) ==
    IF txs = <<>> THEN m
    ELSE LET tx == Head(txs)
             key == buildGroupKey(tx.TransactionTime, tx.Type, tx.Amount)
         IN  GroupSystemAll(Tail(txs), claimed, MapAppend(m, key, tx))

RECURSIVE GroupSystem(_, _, _)
\* lines 79-84: the unclaimed system records, grouped in encounter order
GroupSystem(txs, claimed, m) ==
    IF txs = <<>> THEN m
    ELSE LET tx == Head(txs)
             key == buildGroupKey(tx.TransactionTime, tx.Type, tx.Amount)
         IN  GroupSystem(Tail(txs), claimed,
                         IF tx.TrxID \notin claimed THEN MapAppend(m, key, tx) ELSE m)

RECURSIVE GroupBankAll(_, _, _)
\* mutant: the bank records claimed by Pass 1 are grouped again
GroupBankAll(txs, claimed, m) ==
    IF txs = <<>> THEN m
    ELSE LET tx == Head(txs)
             key == buildGroupKey(tx.Date, tx.Type, tx.NormalizedAmount)
         IN  GroupBankAll(Tail(txs), claimed, MapAppend(m, key, tx))

RECURSIVE GroupBankReversed(_, _, _)
\* mutant: an unclaimed bank record is put at the head of its group
GroupBankReversed(txs, claimed, m) ==
    IF txs = <<>> THEN m
    ELSE LET tx == Head(txs)
             key == buildGroupKey(tx.Date, tx.Type, tx.NormalizedAmount)
         IN  GroupBankReversed(Tail(txs), claimed,
                 IF tx.UniqueIdentifier \in claimed THEN m
                 ELSE IF key \in DOMAIN m THEN [m EXCEPT ![key] = <<tx>> \o @]
                 ELSE MapAppend(m, key, tx))

RECURSIVE GroupBank(_, _, _)
\* lines 85-90: the unclaimed bank records, grouped in encounter order
GroupBank(txs, claimed, m) ==
    IF txs = <<>> THEN m
    ELSE LET tx == Head(txs)
             key == buildGroupKey(tx.Date, tx.Type, tx.NormalizedAmount)
         IN  GroupBank(Tail(txs), claimed,
                       IF tx.UniqueIdentifier \notin claimed THEN MapAppend(m, key, tx) ELSE m)

RECURSIVE BucketBank(_, _)
\* lines 111-113: the records of one bank group, each under its BankSource
BucketBank(m, txs) ==
    IF txs = <<>> THEN m
    ELSE BucketBank(MapAppend(m, Head(txs).BankSource, Head(txs)), Tail(txs))

NewReport(s, e, nSys, nBank) ==
    [ReconciliationSummary |->
        [TimeframeStart |-> FormatDate(s),
         TimeframeEnd |-> FormatDate(e),
         TotalSystemTransactionsProcessed |-> nSys,
         TotalBankTransactionsProcessed |-> nBank,
         MatchedTransactions |-> 0],
     DiscrepantTransactions |->
        [Count |-> 0, TotalDiscrepancyValue |-> 0, Details |-> MakeSlice],
     UnmatchedTransactions |->
        [Count |-> 0,
         SystemMissingFromBank |-> NilSlice,
         BankMissingFromSystem |-> [isNil |-> FALSE, entries |-> EmptyMap]]]


\* ----------------------------------------------------------------------
\* internal/gateway: the CSV repository
\* ----------------------------------------------------------------------
\* A CSV file: whether it can be opened, the number of columns of its header
\* line (0: the file is empty) and its data rows.  A data row is the number
\* of its fields, whether its amount and its date parse, and what its fields
\* parse to.
MissingFile == [exists |-> FALSE, header |-> 0, rows |-> <<>>]
CSVFile(header, rows) == [exists |-> TRUE, header |-> header, rows |-> rows]
RawRow(fields, amountOK, dateOK, row) ==
    [fields |-> fields, amountOK |-> amountOK, dateOK |-> dateOK, row |-> row]

\* rows of four well-formed fields
WellFormed(rows) == [k \in 1..Len(rows) |-> RawRow(4, TRUE, TRUE, rows[k])]

\* the outcome of a repository call: an error and no records, the records,
\* or a run-time panic (index out of range)
Failure == [err |-> "error", transactions |-> <<>>]
Success(txs) == [err |-> "nil", transactions |-> txs]
Panic == [err |-> "panic", transactions |-> <<>>]

RECURSIVE ReadSystemRows(_, _, _)
\* the record loop of GetSystemTransactions; csv.Reader rejects a record
\* whose number of fields is not that of the header
ReadSystemRows(rows, header, acc) ==
    IF rows = <<>> THEN Success(acc)
    ELSE LET r == Head(rows)
         IN  IF r.fields # header THEN Failure
             ELSE IF r.fields < 2 THEN Panic
             ELSE IF ~r.amountOK THEN Failure
             ELSE IF r.fields < 4 THEN Panic
             ELSE IF ~r.dateOK THEN Failure
             ELSE ReadSystemRows(Tail(rows), header, Append(acc, r.row))

GetSystemTransactions(file) ==
    IF ~file.exists THEN Failure
    ELSE IF file.header = 0 THEN Failure
    ELSE ReadSystemRows(file.rows, file.header, <<>>)

RECURSIVE ReadBankRows(_, _, _, _)
\* the record loop of GetBankTransactions over the rows of one file
ReadBankRows(rows, header, source, acc) ==
    IF rows = <<>> THEN Success(acc)
    ELSE LET r == Head(rows)
         IN  IF r.fields # header THEN Failure
             ELSE IF r.fields < 2 THEN Panic
             ELSE IF ~r.amountOK THEN Failure
             ELSE IF r.fields < 3 THEN Panic
             ELSE IF ~r.dateOK THEN Failure
             ELSE IF r.fields < 4 THEN Panic
             ELSE ReadBankRows(Tail(rows), header, source,
                               Append(acc, NormalizeBankTransaction(r.row, source)))

\* filepath.Base of the paths GetBankTransactions is called with
Sources == <<SourceA, SourceB>>

RECURSIVE ReadBankFiles(_, _, _)
\* the loop of GetBankTransactions over the paths, from the k-th on
ReadBankFiles(files, k, acc) ==
    IF k > Len(files) THEN Success(acc)
    ELSE LET file == files[k]
         IN  IF ~file.exists THEN Failure
             ELSE IF file.header = 0 THEN Failure
             ELSE LET got == ReadBankRows(file.rows, file.header, Sources[k], acc)
                  IN  IF got.err # "nil" THEN got
                      ELSE ReadBankFiles(files, k + 1, got.transactions)

GetBankTransactions(files) == ReadBankFiles(files, 1, <<>>)

\* The files of a run of Reconcile: a system file that is missing or holds
\* well-formed rows; two bank files of well-formed rows, the second of which
\* may be missing
RunSystemFiles ==
    {MissingFile} \cup { CSVFile(4, WellFormed(rows)) : rows \in SystemFiles }

RunBankFiles ==
    { <<CSVFile(4, WellFormed(rows[1])), CSVFile(4, WellFormed(rows[2]))>> :
        rows \in { q \in BankFilesOf(MaxBank) \X BankFilesOf(MaxBank) :
                     Len(q[1]) + Len(q[2]) <= MaxBank } }
    \cup
    { <<CSVFile(4, WellFormed(rowsA)), MissingFile>> : rowsA \in BankFilesOf(0) }

\* ----------------------------------------------------------------------
\* Reconcile, step by step
\* ----------------------------------------------------------------------
Init ==
    /\ systemFile \in RunSystemFiles
    /\ bankFiles \in RunBankFiles
    /\ firstRun = NoRun
    /\ pc = "ingestSystem"
    /\ start = WindowStart
    /\ end = WindowEnd
    /\ calls = <<>>
    /\ systemTransactions = <<>>
    /\ bankTransactions = <<>>
    /\ filteredSystemTx = <<>>
    /\ filteredBankTx = <<>>
    /\ report = NoReport
    /\ matchedSystem = {}
    /\ matchedBank = {}
    /\ bi = 1
    /\ si = 1
    /\ systemMap = EmptyMap
    /\ bankMap = EmptyMap
    /\ toVisit = {}
    /\ pairs = <<>>
    /\ ret = NotReturned

\* mutant: the error of the repository is ignored
IngestFailedIgnored(got) == FALSE

\* line 27 and line 32: err != nil
IngestFailed(got) == got.err # "nil"

\* lines 26-29
IngestSystem ==
    /\ pc = "ingestSystem"
    /\ LET got == GetSystemTransactions(systemFile)
       IN  /\ calls' = Append(calls, [method |-> "GetSystemTransactions", err |-> got.err])
           /\ IF got = Panic
              THEN /\ pc' = "crashed"
                   /\ UNCHANGED <<systemTransactions, ret>>
              ELSE IF IngestFailed(got)
              THEN /\ ret' = [returned |-> TRUE, report |-> NoReport,
                              err |-> "could not get system transactions"]
                   /\ pc' = "failed"
                   /\ UNCHANGED systemTransactions
              ELSE /\ systemTransactions' = got.transactions
                   /\ pc' = "ingestBank"
                   /\ UNCHANGED ret
    /\ UNCHANGED <<systemFile, bankFiles, firstRun>>
    /\ UNCHANGED <<start, end, bankTransactions, filteredSystemTx, filteredBankTx,
                   report, matchedSystem, matchedBank, bi, si, systemMap, bankMap,
                   toVisit, pairs>>

\* lines 31-34
IngestBank ==
    /\ pc = "ingestBank"
    /\ LET got == GetBankTransactions(bankFiles)
       IN  /\ calls' = Append(calls, [method |-> "GetBankTransactions", err |-> got.err])
           /\ IF got = Panic
              THEN /\ pc' = "crashed"
                   /\ UNCHANGED <<bankTransactions, ret>>
              ELSE IF IngestFailed(got)
              THEN /\ ret' = [returned |-> TRUE, report |-> NoReport,
                              err |-> "could not get bank transactions"]
                   /\ pc' = "failed"
                   /\ UNCHANGED bankTransactions
              ELSE /\ bankTransactions' = got.transactions
                   /\ pc' = "filter"
                   /\ UNCHANGED ret
    /\ UNCHANGED <<systemFile, bankFiles, firstRun>>
    /\ UNCHANGED <<start, end, systemTransactions, filteredSystemTx, filteredBankTx,
                   report, matchedSystem, matchedBank, bi, si, systemMap, bankMap,
                   toVisit, pairs>>

\* lines 36-57
FilterAndInit ==
    /\ pc = "filter"
    /\ LET fs == filterSystemTransactionsByDate(systemTransactions, start, end)
           fb == filterBankTransactionsByDate(bankTransactions, start, end)
       IN  /\ filteredSystemTx' = fs
           /\ filteredBankTx' = fb
           /\ report' = NewReport(start, end, Len(fs), Len(fb))
    /\ matchedSystem' = {}
    /\ matchedBank' = {}
    /\ bi' = 1
    /\ si' = 1
    /\ pc' = "pass1"
    /\ UNCHANGED <<systemFile, bankFiles, firstRun>>
    /\ UNCHANGED <<start, end, calls, systemTransactions, bankTransactions,
                   systemMap, bankMap, toVisit, pairs, ret>>

\* mutant: only the system record is checked
Pass1ClaimedSystemOnly(sysTx, bankTx, mSys, mBank) == sysTx.TrxID \in mSys

\* mutant: only the claim marker of the bank record is consulted
Pass1ClaimedBankOnly(sysTx, bankTx, mSys, mBank) == bankTx.UniqueIdentifier \in mBank

\* line 62: the record pair is skipped
Pass1Claimed(sysTx, bankTx, mSys, mBank) ==
    sysTx.TrxID \in mSys \/ bankTx.UniqueIdentifier \in mBank

\* line 65
Pass1Refers(bankTx, sysTx) ==
    Contains(bankTx.Description, TrxIDToken \o sysTx.TrxID)

\* lines 60-71: one iteration of the inner loop
Pass1Step ==
    /\ pc = "pass1"
    /\ bi <= Len(filteredBankTx)
    /\ si <= Len(filteredSystemTx)
    /\ LET bankTx == filteredBankTx[bi]
           sysTx == filteredSystemTx[si]
           hit == /\ ~Pass1Claimed(sysTx, bankTx, matchedSystem, matchedBank)
                  /\ Pass1Refers(bankTx, sysTx)
       IN  IF hit
           THEN /\ report' = processMatch(report, sysTx, bankTx)
                /\ matchedSystem' = matchedSystem \cup {sysTx.TrxID}
                /\ matchedBank' = matchedBank \cup {bankTx.UniqueIdentifier}
                /\ pairs' = Append(pairs, [sys |-> sysTx, bank |-> bankTx, pass |-> 1])
           ELSE UNCHANGED <<report, matchedSystem, matchedBank, pairs>>
    /\ IF si < Len(filteredSystemTx)
       THEN si' = si + 1 /\ bi' = bi
       ELSE si' = 1 /\ bi' = bi + 1
    /\ UNCHANGED <<systemFile, bankFiles, firstRun>>
    /\ UNCHANGED <<pc, start, end, calls, systemTransactions, bankTransactions,
                   filteredSystemTx, filteredBankTx, systemMap, bankMap, toVisit, ret>>

\* lines 76-90: Pass 1 is over, the unclaimed records are grouped
BuildGroups ==
    /\ pc = "pass1"
    /\ bi > Len(filteredBankTx) \/ Len(filteredSystemTx) = 0
    /\ systemMap' = GroupSystem(filteredSystemTx, matchedSystem, EmptyMap)
    /\ bankMap' = GroupBank(filteredBankTx, matchedBank, EmptyMap)
    /\ toVisit' = DOMAIN systemMap'
    /\ pc' = "pass23"
    /\ UNCHANGED <<systemFile, bankFiles, firstRun>>
    /\ UNCHANGED <<start, end, calls, systemTransactions, bankTransactions,
                   filteredSystemTx, filteredBankTx, report, matchedSystem,
                   matchedBank, bi, si, pairs, ret>>

RECURSIVE MatchGroup(_, _, _, _)
\* lines 95-99: processMatch on the pairs sysTxs[k], bankTxs[k] for k = from..
MatchGroup(rep, sysTxs, bankTxs, from) ==
    IF from > Len(sysTxs) THEN rep
    ELSE MatchGroup(processMatch(rep, sysTxs[from], bankTxs[from]), sysTxs, bankTxs, from + 1)

\* mutant: a smaller system group is paired with the head of the bank group
GroupsMatchAtMost(sMap, bMap, key) ==
    key \in DOMAIN bMap /\ Len(sMap[key]) <= Len(bMap[key])

\* mutant: the range loop stops after the first group it pairs
GroupsMatchOnce(sMap, bMap, key) ==
    /\ key \in DOMAIN bMap
    /\ Len(sMap[key]) = Len(bMap[key])
    /\ \A k \in 1..Len(pairs) : pairs[k].pass = 1

\* line 94
GroupsMatch(sMap, bMap, key) ==
    key \in DOMAIN bMap /\ Len(sMap[key]) = Len(bMap[key])

\* lines 92-104: the range loop visits one key of systemMap, in any order
Pass23Step ==
    /\ pc = "pass23"
    /\ \E key \in toVisit :
         LET sysTxs == systemMap[key]
         IN  /\ toVisit' = toVisit \ {key}
             /\ IF GroupsMatch(systemMap, bankMap, key)
                THEN LET bankTxs == bankMap[key]
                     IN  /\ report' = MatchGroup(report, sysTxs, bankTxs, 1)
                         /\ matchedSystem' = matchedSystem \cup
                                { sysTxs[k].TrxID : k \in 1..Len(sysTxs) }
                         /\ matchedBank' = matchedBank \cup
                                { bankTxs[k].UniqueIdentifier : k \in 1..Len(bankTxs) }
                         /\ pairs' = pairs \o
                                [k \in 1..Len(sysTxs) |->
                                    [sys |-> sysTxs[k], bank |-> bankTxs[k], pass |-> 2]]
                         /\ systemMap' = MapDelete(systemMap, key)
                         /\ bankMap' = MapDelete(bankMap, key)
                ELSE UNCHANGED <<report, matchedSystem, matchedBank, pairs,
                                 systemMap, bankMap>>
    /\ UNCHANGED <<systemFile, bankFiles, firstRun>>
    /\ UNCHANGED <<pc, start, end, calls, systemTransactions, bankTransactions,
                   filteredSystemTx, filteredBankTx, bi, si, ret>>

\* line 104: the range loop over systemMap is over
Pass23Done ==
    /\ pc = "pass23"
    /\ toVisit = {}
    /\ toVisit' = DOMAIN systemMap
    /\ pc' = "collateSystem"
    /\ UNCHANGED <<systemFile, bankFiles, firstRun>>
    /\ UNCHANGED <<start, end, calls, systemTransactions, bankTransactions,
                   filteredSystemTx, filteredBankTx, report, matchedSystem,
                   matchedBank, bi, si, systemMap, bankMap, pairs, ret>>

\* lines 107-109: one group of systemMap, in any order
CollateSystemStep ==
    /\ pc = "collateSystem"
    /\ \E key \in toVisit :
         /\ toVisit' = toVisit \ {key}
         /\ report' = [report EXCEPT !.UnmatchedTransactions.SystemMissingFromBank =
                            AppendSlice(@, systemMap[key])]
    /\ UNCHANGED <<systemFile, bankFiles, firstRun>>
    /\ UNCHANGED <<pc, start, end, calls, systemTransactions, bankTransactions,
                   filteredSystemTx, filteredBankTx, matchedSystem, matchedBank,
                   bi, si, systemMap, bankMap, pairs, ret>>

CollateSystemDone ==
    /\ pc = "collateSystem"
    /\ toVisit = {}
    /\ toVisit' = DOMAIN bankMap
    /\ pc' = "collateBank"
    /\ UNCHANGED <<systemFile, bankFiles, firstRun>>
    /\ UNCHANGED <<start, end, calls, systemTransactions, bankTransactions,
                   filteredSystemTx, filteredBankTx, report, matchedSystem,
                   matchedBank, bi, si, systemMap, bankMap, pairs, ret>>

\* lines 110-114: one group of bankMap, in any order
CollateBankStep ==
    /\ pc = "collateBank"
    /\ \E key \in toVisit :
         /\ toVisit' = toVisit \ {key}
         /\ report' = [report EXCEPT !.UnmatchedTransactions.BankMissingFromSystem.entries =
                            BucketBank(@, bankMap[key])]
    /\ UNCHANGED <<systemFile, bankFiles, firstRun>>
    /\ UNCHANGED <<pc, start, end, calls, systemTransactions, bankTransactions,
                   filteredSystemTx, filteredBankTx, matchedSystem, matchedBank,
                   bi, si, systemMap, bankMap, pairs, ret>>

\* the unmatched count of line 117
UnmatchedCount(unmatched) ==
    Len(unmatched.SystemMissingFromBank.items)
        + countBankMapItems(unmatched.BankMissingFromSystem.entries)

\* lines 117-119
Finish ==
    /\ pc = "collateBank"
    /\ toVisit = {}
    /\ report' = [report EXCEPT !.UnmatchedTransactions.Count =
                        UnmatchedCount(report.UnmatchedTransactions)]
    /\ ret' = [returned |-> TRUE, report |-> report', err |-> "nil"]
    /\ pc' = "done"
    /\ UNCHANGED <<systemFile, bankFiles, firstRun>>
    /\ UNCHANGED <<start, end, calls, systemTransactions, bankTransactions,
                   filteredSystemTx, filteredBankTx, matchedSystem, matchedBank,
                   bi, si, systemMap, bankMap, toVisit, pairs>>

Next ==
    \/ IngestSystem
    \/ IngestBank
    \/ FilterAndInit
    \/ Pass1Step
    \/ BuildGroups
    \/ Pass23Step
    \/ Pass23Done
    \/ CollateSystemStep
    \/ CollateSystemDone
    \/ CollateBankStep
    \/ Finish

Spec == Init /\ [][Next]_vars

FairSpec == Spec /\ WF_vars(Next)

\* ----------------------------------------------------------------------
\* The date filters on their own: Reconcile's filtering step on records of
\* any time of day, as a repository may hand them over
\* ----------------------------------------------------------------------
MaxFilterLen == 2

TimesOfDay ==
    { Duration(0, 0), Duration(43200, 0), Duration(82799, 999999999),
      Duration(82800, 0), Duration(84600, 0), Duration(86399, 999999999) }

FilterTimes == { TimeAdd(Date(d), tod) : d \in 0..4, tod \in TimesOfDay }

FilterWindows == { <<Date(a), Date(b)>> : a \in 1..2, b \in 1..3 }

FilterIDs == <<T1, T2, T3, T4>>

InitFilter ==
    /\ systemFile = MissingFile
    /\ bankFiles = <<>>
    /\ firstRun = NoRun
    /\ pc = "filter"
    /\ \E w \in FilterWindows, ts \in SeqsOver(FilterTimes, MaxFilterLen) :
         /\ start = w[1]
         /\ end = w[2]
         /\ systemTransactions =
              [k \in 1..Len(ts) |-> SystemTransaction(FilterIDs[k], 1000, DEBIT, ts[k])]
         /\ bankTransactions =
              [k \in 1..Len(ts) |->
                 [NormalizeBankTransaction(BankRow(FilterIDs[k], -1000, 0, NoRef), SourceA)
                    EXCEPT !.Date = ts[k]]]
    /\ calls = <<>>
    /\ filteredSystemTx = <<>>
    /\ filteredBankTx = <<>>
    /\ report = NoReport
    /\ matchedSystem = {}
    /\ matchedBank = {}
    /\ bi = 1
    /\ si = 1
    /\ systemMap = EmptyMap
    /\ bankMap = EmptyMap
    /\ toVisit = {}
    /\ pairs = <<>>
    /\ ret = NotReturned

FilterSpec == InitFilter /\ [][FilterAndInit]_vars


\* ----------------------------------------------------------------------
\* Properties
\* ----------------------------------------------------------------------
\* the filtering step has run
Filtered == pc \in {"pass1", "pass23", "collateSystem", "collateBank", "done"}

\* how often x occurs in the sequence q
Occurrences(q, x) == Cardinality({ k \in 1..Len(q) : q[k] = x })

PairedSystem == [k \in 1..Len(pairs) |-> pairs[k].sys]
PairedBank == [k \in 1..Len(pairs) |-> pairs[k].bank]

Matched == report.ReconciliationSummary.MatchedTransactions
SystemOnly == report.UnmatchedTransactions.SystemMissingFromBank.items
BankOnly == report.UnmatchedTransactions.BankMissingFromSystem.entries

PairDiff(p) == Abs(p.sys.Amount - p.bank.NormalizedAmount)

RECURSIVE SumDiffs(_)
SumDiffs(ps) == IF ps = <<>> THEN 0 ELSE PairDiff(Head(ps)) + SumDiffs(Tail(ps))

\* C1: after Reconcile the matched count plus the number of records in all
\* bank-only buckets is the size of the filtered bank set, with bank
\* identifiers unique within each file only.
C1_BankConservation ==
    pc = "done" => Matched + countBankMapItems(BankOnly) = Len(filteredBankTx)

\* C2: after Reconcile the matched count plus the length of the system-only
\* list is the size of the filtered system set, and every filtered system
\* record is in exactly one of the two.
C2_SystemConservation ==
    pc = "done" =>
        /\ Matched + Len(SystemOnly) = Len(filteredSystemTx)
        /\ \A k \in 1..Len(filteredSystemTx) :
             Occurrences(PairedSystem, filteredSystemTx[k])
                + Occurrences(SystemOnly, filteredSystemTx[k]) = 1

C2_Witness ==
    /\ pc = "done"
    /\ Matched >= 1
    /\ Len(SystemOnly) >= 1

\* C3: no system record and no bank record is in more than one accepted
\* pair, over Pass 1 and Pass 2/3 together.
C3_OneToOne ==
    \A a, b \in 1..Len(pairs) :
        a # b => pairs[a].sys # pairs[b].sys /\ pairs[a].bank # pairs[b].bank

C3_Witness ==
    /\ Len(pairs) >= 2
    /\ \E a, b \in 1..Len(pairs) : pairs[a].pass = 1 /\ pairs[b].pass = 2

\* the accepted pairs whose amounts differ by more than epsilon
DiscrepantPairs == SelectSeq(pairs, LAMBDA p : PairDiff(p) > 1)

\* C4: the details list holds exactly the accepted pairs whose amounts
\* differ by more than 0.001, the discrepancy count is its length and the
\* total is the sum of their absolute differences.
C4_Discrepancies ==
    report # NoReport =>
        LET d == report.DiscrepantTransactions
        IN  /\ d.Details.items =
                 [k \in 1..Len(DiscrepantPairs) |->
                    [SystemTransaction |-> DiscrepantPairs[k].sys,
                     BankTransaction |-> DiscrepantPairs[k].bank]]
            /\ d.Count = Len(d.Details.items)
            /\ d.TotalDiscrepancyValue = SumDiffs(DiscrepantPairs)

C4_Witness ==
    /\ report # NoReport
    /\ report.DiscrepantTransactions.Count >= 1
    /\ \E k \in 1..Len(pairs) : PairDiff(pairs[k]) = 1

\* C5: on both sides a record of the end calendar day is included whatever
\* its time of day.
C5_EndDayIncluded ==
    (Filtered /\ ~TimeAfter(start, end)) =>
        /\ \A k \in 1..Len(systemTransactions) :
             FormatDate(systemTransactions[k].TransactionTime) = FormatDate(end)
                => Occurrences(filteredSystemTx, systemTransactions[k]) = 1
        /\ \A k \in 1..Len(bankTransactions) :
             FormatDate(bankTransactions[k].Date) = FormatDate(end)
                => Occurrences(filteredBankTx, bankTransactions[k]) = 1

OneDay == Duration(SecondsPerDay, 0)

\* the decision the claim C6 makes for a record dated t: kept, dropped, or
\* no statement
BoundaryKept(t) == TimeEqual(t, start) \/ TimeEqual(t, end)
BoundaryDropped(t) == TimeBefore(t, start) \/ ~TimeBefore(t, TimeAdd(end, OneDay))

\* C6: on both sides a record dated exactly on start or exactly on end is
\* included, one before start is excluded, one dated end + 1 day or later is
\* excluded (for a window with start <= end).
C6_Boundaries ==
    (Filtered /\ ~TimeAfter(start, end)) =>
        /\ \A k \in 1..Len(systemTransactions) :
             LET tx == systemTransactions[k]
             IN  /\ BoundaryKept(tx.TransactionTime) => Occurrences(filteredSystemTx, tx) = 1
                 /\ BoundaryDropped(tx.TransactionTime) => Occurrences(filteredSystemTx, tx) = 0
        /\ \A k \in 1..Len(bankTransactions) :
             LET tx == bankTransactions[k]
             IN  /\ BoundaryKept(tx.Date) => Occurrences(filteredBankTx, tx) = 1
                 /\ BoundaryDropped(tx.Date) => Occurrences(filteredBankTx, tx) = 0

C6_Witness ==
    /\ Filtered
    /\ TimeBefore(start, end)
    /\ Len(systemTransactions) = 2
    /\ TimeEqual(systemTransactions[1].TransactionTime, end)
    /\ TimeEqual(systemTransactions[2].TransactionTime, TimeAdd(end, OneDay))
    /\ TimeEqual(bankTransactions[1].Date, end)
    /\ TimeEqual(bankTransactions[2].Date, TimeAdd(end, OneDay))
    /\ Len(filteredSystemTx) = 1
    /\ Len(filteredBankTx) = 1

\* Reconcile returned a nil report and an error, and built no report
Aborted ==
    /\ pc = "failed"
    /\ ret.returned
    /\ ret.report = NoReport
    /\ ret.err # "nil"
    /\ report = NoReport

\* C7: a failed GetSystemTransactions ends the run with a nil report and an
\* error before GetBankTransactions is called; a failed GetBankTransactions
\* ends it with a nil report and an error.
C7_IngestionFailureAborts ==
    \A k \in 1..Len(calls) :
        calls[k].err # "nil" =>
            /\ Aborted
            /\ k = Len(calls)
            /\ calls[k].method = "GetSystemTransactions" =>
                 \A l \in 1..Len(calls) : calls[l].method # "GetBankTransactions"

C7_Witness ==
    /\ pc = "failed"
    /\ Len(calls) = 2
    /\ calls[2].method = "GetBankTransactions"
    /\ calls[2].err # "nil"
    /\ systemTransactions # <<>>

C8_WellFormed ==
    /\ pc = "done" => ret.returned /\ ret.report = report /\ report # NoReport /\ ret.err = "nil"
    /\ report # NoReport =>
         /\ ~report.DiscrepantTransactions.Details.isNil
         /\ ~report.UnmatchedTransactions.BankMissingFromSystem.isNil
    /\ (pc = "done" /\ filteredSystemTx = <<>> /\ filteredBankTx = <<>>) =>
         /\ report.ReconciliationSummary.TotalSystemTransactionsProcessed = 0
         /\ report.ReconciliationSummary.TotalBankTransactionsProcessed = 0
         /\ Matched = 0
         /\ report.DiscrepantTransactions.Count = 0
         /\ report.DiscrepantTransactions.TotalDiscrepancyValue = 0
         /\ report.DiscrepantTransactions.Details.items = <<>>
         /\ report.UnmatchedTransactions.Count = 0
         /\ DOMAIN BankOnly = {}

\* the steps Reconcile has at most left: the statements after the current
\* loop, and the iterations of the current loop
C8_Remaining ==
    LET perStage == (MaxSys + 1) * (MaxBank + 1) + 1
        stage == CASE pc = "ingestSystem" -> 7
                   [] pc = "ingestBank" -> 6
                   [] pc = "filter" -> 5
                   [] pc = "pass1" -> 4
                   [] pc = "pass23" -> 3
                   [] pc = "collateSystem" -> 2
                   [] pc = "collateBank" -> 1
                   [] OTHER -> 0
        loop == CASE pc = "pass1" ->
                       IF Len(filteredSystemTx) = 0 \/ bi > Len(filteredBankTx) THEN 0
                       ELSE (Len(filteredBankTx) - bi + 1) * Len(filteredSystemTx) - (si - 1)
                  [] pc \in {"pass23", "collateSystem", "collateBank"} -> Cardinality(toVisit)
                  [] OTHER -> 0
    IN  stage * perStage + loop

\* Reconcile is never stuck before it returns
C8_NotStuck == pc \notin {"done", "failed"} => ENABLED Next

\* C8: once both ingestion calls have succeeded Reconcile ends with a report
\* and no error (it is never stuck, every step brings the return nearer, and
\* the return after ingestion is that of a report); with nothing left after
\* filtering all counts are zero, and the details list and the bank-only
\* mapping are never nil.
C8_Totality ==
    /\ []C8_WellFormed
    /\ []C8_NotStuck
    /\ [][C8_Remaining' < C8_Remaining /\ (pc' = "failed" => pc \in {"ingestSystem", "ingestBank"})]_vars

C8_Witness ==
    /\ pc = "done"
    /\ systemTransactions # <<>>
    /\ bankTransactions # <<>>
    /\ filteredSystemTx = <<>>
    /\ filteredBankTx = <<>>

\* C9: the matched count is the number of accepted pairs of both passes,
\* and the discrepancy count never exceeds it.
C9_MatchedCount ==
    report # NoReport =>
        /\ Matched = Len(pairs)
        /\ report.DiscrepantTransactions.Count <= Matched

C9_Witness ==
    /\ report # NoReport
    /\ report.DiscrepantTransactions.Count >= 1
    /\ report.DiscrepantTransactions.Count < Matched
    /\ \E a, b \in 1..Len(pairs) : pairs[a].pass = 1 /\ pairs[b].pass = 2

\* C10: after Reconcile every filtered bank record that was never matched
\* is in the bank-only mapping under its own source tag and under no other,
\* the mapping has keys only for tags with such a record, and the unmatched
\* count is the system-only length plus the size of all bank-only buckets.
C10_BankOnlyBuckets ==
    pc = "done" =>
        /\ \A k \in 1..Len(filteredBankTx) :
             LET tx == filteredBankTx[k]
             IN  Occurrences(PairedBank, tx) = 0 =>
                   /\ tx.BankSource \in DOMAIN BankOnly
                   /\ Occurrences(BankOnly[tx.BankSource], tx) = 1
                   /\ \A tag \in DOMAIN BankOnly :
                        tag # tx.BankSource => Occurrences(BankOnly[tag], tx) = 0
        /\ \A tag \in DOMAIN BankOnly :
             \E k \in 1..Len(filteredBankTx) :
                /\ filteredBankTx[k].BankSource = tag
                /\ Occurrences(PairedBank, filteredBankTx[k]) = 0
        /\ report.UnmatchedTransactions.Count =
             Len(SystemOnly) + countBankMapItems(BankOnly)

\* ----------------------------------------------------------------------
\* Accounting after the filter
\* ----------------------------------------------------------------------
\* the calendar day of t is outside the window of the run
OutsideWindow(t) ==
    FormatDate(t) < FormatDate(start) \/ FormatDate(t) > FormatDate(end)

\* the bank record tx is in some bank-only bucket
InBankOnly(tx) == \E tag \in DOMAIN BankOnly : Occurrences(BankOnly[tag], tx) > 0

\* C11: the processed counts of the summary are the sizes of the filtered
\* system and bank sets, and an ingested record that did not pass the
\* filter, in particular every record dated outside the window, is in no
\* pair, not system-only and in no bank-only bucket.
C11_PostFilterAccounting ==
    report # NoReport =>
        /\ report.ReconciliationSummary.TotalSystemTransactionsProcessed = Len(filteredSystemTx)
        /\ report.ReconciliationSummary.TotalBankTransactionsProcessed = Len(filteredBankTx)
        /\ \A k \in 1..Len(systemTransactions) :
             LET tx == systemTransactions[k]
             IN  /\ OutsideWindow(tx.TransactionTime) => Occurrences(filteredSystemTx, tx) = 0
                 /\ Occurrences(filteredSystemTx, tx) = 0 =>
                      /\ Occurrences(PairedSystem, tx) = 0
                      /\ Occurrences(SystemOnly, tx) = 0
        /\ \A k \in 1..Len(bankTransactions) :
             LET tx == bankTransactions[k]
             IN  /\ OutsideWindow(tx.Date) => Occurrences(filteredBankTx, tx) = 0
                 /\ Occurrences(filteredBankTx, tx) = 0 =>
                      /\ Occurrences(PairedBank, tx) = 0
                      /\ ~InBankOnly(tx)

\* a finished run with a system record and a bank record outside the
\* window, the bank record referring to the system record and sharing its
\* group key, next to a record inside the window
C11_Witness ==
    /\ pc = "done"
    /\ \E i \in 1..Len(systemTransactions), j \in 1..Len(bankTransactions) :
         /\ OutsideWindow(systemTransactions[i].TransactionTime)
         /\ OutsideWindow(bankTransactions[j].Date)
         /\ Pass1Refers(bankTransactions[j], systemTransactions[i])
         /\ buildGroupKey(systemTransactions[i].TransactionTime,
                          systemTransactions[i].Type, systemTransactions[i].Amount)
              = buildGroupKey(bankTransactions[j].Date, bankTransactions[j].Type,
                              bankTransactions[j].NormalizedAmount)
    /\ report.ReconciliationSummary.TotalSystemTransactionsProcessed = 1
    /\ Len(systemTransactions) = 2

\* ----------------------------------------------------------------------
\* The groups of Pass 2/3, recomputed from the history of Pass 1
\* ----------------------------------------------------------------------
Grouped == pc \in {"pass23", "collateSystem", "collateBank", "done"}

Pass1Pairs == SelectSeq(pairs, LAMBDA p : p.pass = 1)
Pass23Pairs == SelectSeq(pairs, LAMBDA p : p.pass = 2)
Pass1SystemIDs == { Pass1Pairs[k].sys.TrxID : k \in 1..Len(Pass1Pairs) }
Pass1BankIDs == { Pass1Pairs[k].bank.UniqueIdentifier : k \in 1..Len(Pass1Pairs) }

SystemGroups == GroupSystem(filteredSystemTx, Pass1SystemIDs, EmptyMap)
BankGroups == GroupBank(filteredBankTx, Pass1BankIDs, EmptyMap)

\* the keys under which both sides have a group, of different sizes
UnequalKeys ==
    { key \in (DOMAIN SystemGroups) \cap (DOMAIN BankGroups) :
        Len(SystemGroups[key]) # Len(BankGroups[key]) }

\* C13: when the system group and the bank group of one key have different
\* sizes, no record of either group is ever paired, and at the end of the
\* run each of them is in the residue: once in the system-only list, or
\* once in the bank-only bucket of its source.
C13_GroupSizePolicy ==
    Grouped =>
        \A key \in UnequalKeys :
            /\ \A k \in 1..Len(SystemGroups[key]) :
                 LET tx == SystemGroups[key][k]
                 IN  /\ Occurrences(PairedSystem, tx) = 0
                     /\ pc = "done" => Occurrences(SystemOnly, tx) = 1
            /\ \A k \in 1..Len(BankGroups[key]) :
                 LET tx == BankGroups[key][k]
                 IN  /\ Occurrences(PairedBank, tx) = 0
                     /\ pc = "done" =>
                          /\ tx.BankSource \in DOMAIN BankOnly
                          /\ Occurrences(BankOnly[tx.BankSource], tx) = 1

\* a finished run in which one key had a smaller system group than bank group
C13_Witness ==
    /\ pc = "done"
    /\ \E key \in UnequalKeys :
         Len(SystemGroups[key]) = 1 /\ Len(BankGroups[key]) = 2

\* the discrepancy details of the report, as a sequence
Details == report.DiscrepantTransactions.Details.items

\* the pair p is listed in the discrepancy details
InDetails(p) ==
    \E k \in 1..Len(Details) :
        /\ Details[k].SystemTransaction = p.sys
        /\ Details[k].BankTransaction = p.bank

\* C14: every pair matched by Pass 2/3 has a system amount numerically
\* equal to the bank normalized amount, and no such pair is recorded as a
\* discrepancy.
C14_GroupPairsEqualAmounts ==
    report # NoReport =>
        \A k \in 1..Len(Pass23Pairs) :
            /\ Pass23Pairs[k].sys.Amount = Pass23Pairs[k].bank.NormalizedAmount
            /\ ~InDetails(Pass23Pairs[k])

\* ----------------------------------------------------------------------
\* Pass priority
\* ----------------------------------------------------------------------
SystemKey(tx) == buildGroupKey(tx.TransactionTime, tx.Type, tx.Amount)
BankKey(tx) == buildGroupKey(tx.Date, tx.Type, tx.NormalizedAmount)

\* the filtered pairs (system record, bank record) that qualify for Pass 1
\* and have the same group key
DoublyQualified ==
    { p \in [sys : { filteredSystemTx[k] : k \in 1..Len(filteredSystemTx) },
             bank : { filteredBankTx[k] : k \in 1..Len(filteredBankTx) }] :
        Pass1Refers(p.bank, p.sys) /\ SystemKey(p.sys) = BankKey(p.bank) }

InSystemMap(tx) == \E key \in DOMAIN systemMap : Occurrences(systemMap[key], tx) > 0
InBankMap(tx) == \E key \in DOMAIN bankMap : Occurrences(bankMap[key], tx) > 0

\* the pair p was accepted by Pass 1, none of its records is in a group of
\* Pass 2/3 or in a pair of Pass 2/3, and it is counted once
ConsumedByPass1(p) ==
    /\ Occurrences(pairs, [sys |-> p.sys, bank |-> p.bank, pass |-> 1]) = 1
    /\ Occurrences(PairedSystem, p.sys) = 1
    /\ Occurrences(PairedBank, p.bank) = 1
    /\ ~InSystemMap(p.sys)
    /\ ~InBankMap(p.bank)
    /\ Matched = Len(pairs)

\* Pass 1 accepted another pair that holds the system identifier or the
\* bank identifier of p
ClaimedElsewhere(p) ==
    \E k \in 1..Len(Pass1Pairs) :
        /\ <<Pass1Pairs[k].sys, Pass1Pairs[k].bank>> # <<p.sys, p.bank>>
        /\ \/ Pass1Pairs[k].sys.TrxID = p.sys.TrxID
           \/ Pass1Pairs[k].bank.UniqueIdentifier = p.bank.UniqueIdentifier

\* C15 as stated: a pair that qualifies for Pass 1 and has one group key is
\* consumed by Pass 1, none of its records enters a group of Pass 2/3, and
\* it is counted once.
C15_PassPriority_Original ==
    Grouped => \A p \in DoublyQualified : ConsumedByPass1(p)

\* C15, amended: a pair that qualifies for Pass 1 and has one group key is
\* consumed by Pass 1 (none of its records enters a group of Pass 2/3, and
\* it is counted once), unless Pass 1 accepted another pair that claimed its
\* system identifier or its bank identifier.
C15_PassPriority ==
    Grouped => \A p \in DoublyQualified : ConsumedByPass1(p) \/ ClaimedElsewhere(p)

\* a finished run with a doubly qualified pair consumed by Pass 1, next to
\* a pair of Pass 2/3
C15_Witness ==
    /\ pc = "done"
    /\ \E p \in DoublyQualified : ConsumedByPass1(p) /\ ~ClaimedElsewhere(p)
    /\ Len(Pass23Pairs) >= 1

\* ----------------------------------------------------------------------
\* The derived fields of a bank record
\* ----------------------------------------------------------------------
DerivedFieldsHold(tx) ==
    /\ tx.NormalizedAmount = Abs(tx.Amount)
    /\ tx.Type = IF tx.Amount < 0 THEN DEBIT ELSE CREDIT

Ingested(tx) == Occurrences(bankTransactions, tx) > 0

\* C17: every bank record returned by the ingestion has NormalizedAmount =
\* |Amount| and Type = DEBIT for a negative Amount, CREDIT otherwise, and
\* every bank record of the report, in the discrepancy details or in a
\* bank-only bucket, is equal in all fields to an ingested record and so
\* has the same derived fields.
C17_DerivedFields ==
    /\ \A k \in 1..Len(bankTransactions) : DerivedFieldsHold(bankTransactions[k])
    /\ report # NoReport =>
         /\ \A k \in 1..Len(Details) :
              /\ Ingested(Details[k].BankTransaction)
              /\ DerivedFieldsHold(Details[k].BankTransaction)
         /\ \A tag \in DOMAIN BankOnly : \A k \in 1..Len(BankOnly[tag]) :
              /\ Ingested(BankOnly[tag][k])
              /\ DerivedFieldsHold(BankOnly[tag][k])

\* a finished run whose report holds a debit bank record in the discrepancy
\* details and a credit bank record in a bank-only bucket
C17_Witness ==
    /\ pc = "done"
    /\ \E k \in 1..Len(Details) :
         /\ Details[k].BankTransaction.Amount < 0
         /\ Details[k].BankTransaction.Type = DEBIT
    /\ \E tag \in DOMAIN BankOnly : \E k \in 1..Len(BankOnly[tag]) :
         /\ BankOnly[tag][k].Amount > 0
         /\ BankOnly[tag][k].Type = CREDIT

\* ----------------------------------------------------------------------
\* The two date filters, side by side
\* ----------------------------------------------------------------------
\* C18: the system-side filter and the bank-side filter take the same
\* decision for a system record and a bank record of the same timestamp,
\* whatever the window.
C18_SymmetricFiltering ==
    Filtered =>
        \A i \in 1..Len(systemTransactions), j \in 1..Len(bankTransactions) :
            TimeEqual(systemTransactions[i].TransactionTime, bankTransactions[j].Date) =>
                (Occurrences(filteredSystemTx, systemTransactions[i]) = 1
                    <=> Occurrences(filteredBankTx, bankTransactions[j]) = 1)

\* ----------------------------------------------------------------------
\* Discrepancies of date
\* ----------------------------------------------------------------------
\* C19: a matched pair whose system-side calendar day and bank-side
\* calendar day differ is listed in the discrepancy details.
C19_DateDiscrepanciesReported ==
    report # NoReport =>
        \A k \in 1..Len(pairs) :
            FormatDate(pairs[k].sys.TransactionTime) # FormatDate(pairs[k].bank.Date)
                => InDetails(pairs[k])

\* ----------------------------------------------------------------------
\* The order of Pass 1
\* ----------------------------------------------------------------------
\* the position of a record in its filtered set (records are distinct)
SystemIndex(tx) == CHOOSE k \in 1..Len(filteredSystemTx) : filteredSystemTx[k] = tx
BankIndex(tx) == CHOOSE k \in 1..Len(filteredBankTx) : filteredBankTx[k] = tx

\* the identifiers claimed by the first n acceptances of Pass 1
SystemIDsClaimedBy(n) == { Pass1Pairs[k].sys.TrxID : k \in 1..n }
BankIDsClaimedBy(n) == { Pass1Pairs[k].bank.UniqueIdentifier : k \in 1..n }

\* Pass 1 accepts pairs in the order of a bank-outer, system-inner scan, and
\* each accepted pair qualifies and was unclaimed when it was accepted
ScanOrder ==
    /\ \A k \in 1..Len(Pass1Pairs) :
         /\ Pass1Refers(Pass1Pairs[k].bank, Pass1Pairs[k].sys)
         /\ Pass1Pairs[k].sys.TrxID \notin SystemIDsClaimedBy(k - 1)
         /\ Pass1Pairs[k].bank.UniqueIdentifier \notin BankIDsClaimedBy(k - 1)
    /\ \A k, l \in 1..Len(Pass1Pairs) :
         k < l =>
            \/ BankIndex(Pass1Pairs[k].bank) < BankIndex(Pass1Pairs[l].bank)
            \/ /\ BankIndex(Pass1Pairs[k].bank) = BankIndex(Pass1Pairs[l].bank)
               /\ SystemIndex(Pass1Pairs[k].sys) < SystemIndex(Pass1Pairs[l].sys)

\* the bank records before b in the filtered bank set that mention s
EarlierMentions(s, b) ==
    { j \in 1..(BankIndex(b) - 1) : Pass1Refers(filteredBankTx[j], s) }

\* the system records before s in the filtered system set that b mentions
EarlierMentioned(s, b) ==
    { i \in 1..(SystemIndex(s) - 1) : Pass1Refers(b, filteredSystemTx[i]) }

\* C20 as stated: Pass 1 scans bank-outer, system-inner and accepts the
\* first qualifying unclaimed pair, and a system record is only ever paired
\* with the first bank record, in iteration order, whose description
\* mentions it.
C20_FirstMatch_Original ==
    report # NoReport =>
        /\ ScanOrder
        /\ \A k \in 1..Len(Pass1Pairs) :
             EarlierMentions(Pass1Pairs[k].sys, Pass1Pairs[k].bank) = {}

\* C20, amended: Pass 1 scans bank-outer, system-inner and accepts the first
\* qualifying unclaimed pair, and a system record is paired with the first
\* bank record, in iteration order, that mentions it and whose identifier
\* is not yet claimed when the scan reaches the pair: every earlier bank
\* record that mentions it was claimed by an earlier acceptance, and so was
\* every earlier system record the bank record mentions.
C20_FirstMatch ==
    report # NoReport =>
        /\ ScanOrder
        /\ \A k \in 1..Len(Pass1Pairs) :
             /\ \A j \in EarlierMentions(Pass1Pairs[k].sys, Pass1Pairs[k].bank) :
                  filteredBankTx[j].UniqueIdentifier \in BankIDsClaimedBy(k - 1)
             /\ \A i \in EarlierMentioned(Pass1Pairs[k].sys, Pass1Pairs[k].bank) :
                  filteredSystemTx[i].TrxID \in SystemIDsClaimedBy(k - 1)

\* a finished run in which the first bank record mentions two system
\* records and is paired with the first of them, and the second system
\* record is then paired with a later bank record that mentions it
C20_Witness ==
    /\ pc = "done"
    /\ Len(Pass1Pairs) = 2
    /\ EarlierMentions(Pass1Pairs[2].sys, Pass1Pairs[2].bank) # {}
    /\ EarlierMentions(Pass1Pairs[1].sys, Pass1Pairs[1].bank) = {}
    /\ Pass1Pairs[1].bank.UniqueIdentifier = "B6"
    /\ Pass1Pairs[2].sys.TrxID = T11

\* ----------------------------------------------------------------------
\* The ingestion alone, on files that need not be well formed
\* ----------------------------------------------------------------------
MaxRawRows == 2

\* data rows of a system file: two good ones, one whose amount does not
\* parse, one whose transactionTime does not parse, one of three fields
RawSystemRows ==
    { RawRow(4, TRUE, TRUE, SystemTransaction(T1, 1000, DEBIT, Date(1))),
      RawRow(4, TRUE, TRUE, SystemTransaction(T2, 2000, CREDIT, Date(2))),
      RawRow(4, FALSE, TRUE, SystemTransaction(T3, 0, DEBIT, Date(1))),
      RawRow(4, TRUE, FALSE, SystemTransaction(T4, 1000, DEBIT, Date(0))),
      RawRow(3, TRUE, TRUE, SystemTransaction(T11, 1500, DEBIT, Date(0))) }

\* data rows of a bank file, likewise
RawBankRows ==
    { RawRow(4, TRUE, TRUE, BankRow("B1", -1000, 1, Ref(T1))),
      RawRow(4, TRUE, TRUE, BankRow("B3", 2000, 2, NoRef)),
      RawRow(4, FALSE, TRUE, BankRow("B2", 0, 1, NoRef)),
      RawRow(4, TRUE, FALSE, BankRow("B4", 1001, 0, NoRef)),
      RawRow(3, TRUE, TRUE, BankRow("B5", -1000, 3, <<>>)) }

\* the files of n data rows: with a header of three or of four columns, and
\* for n = 0 also the missing file and the empty file
RawFiles(rows, n) ==
    (IF n = 0 THEN {MissingFile, CSVFile(0, <<>>)} ELSE {})
        \cup { CSVFile(h, q) : h \in {3, 4}, q \in [1..n -> rows] }

InitIngest ==
    /\ \E nS \in 0..MaxRawRows :
         \E nA \in 0..(MaxRawRows - nS) :
            \E nB \in 0..(MaxRawRows - nS - nA) :
               /\ systemFile \in RawFiles(RawSystemRows, nS)
               /\ bankFiles \in { <<a, b>> : a \in RawFiles(RawBankRows, nA),
                                             b \in RawFiles(RawBankRows, nB) }
    /\ firstRun = NoRun
    /\ pc = "ingestSystem"
    /\ start = WindowStart
    /\ end = WindowEnd
    /\ calls = <<>>
    /\ systemTransactions = <<>>
    /\ bankTransactions = <<>>
    /\ filteredSystemTx = <<>>
    /\ filteredBankTx = <<>>
    /\ report = NoReport
    /\ matchedSystem = {}
    /\ matchedBank = {}
    /\ bi = 1
    /\ si = 1
    /\ systemMap = EmptyMap
    /\ bankMap = EmptyMap
    /\ toVisit = {}
    /\ pairs = <<>>
    /\ ret = NotReturned

NextIngest == IngestSystem \/ IngestBank

IngestSpec == InitIngest /\ [][NextIngest]_vars

\* all the records of a system file, and of the bank files
AllSystemRecords == [k \in 1..Len(systemFile.rows) |-> systemFile.rows[k].row]
AllBankRecords ==
    [k \in 1..Len(bankFiles[1].rows) |->
        NormalizeBankTransaction(bankFiles[1].rows[k].row, SourceA)]
    \o [k \in 1..Len(bankFiles[2].rows) |->
        NormalizeBankTransaction(bankFiles[2].rows[k].row, SourceB)]

\* C16: for every input each of GetSystemTransactions and
\* GetBankTransactions returns the complete list of records, or an error
\* and no records: it never crashes and never returns a part of the
\* records, also when only one of the bank files is unreadable or malformed.
C16_AllOrNothing ==
    /\ pc # "crashed"
    /\ \A k \in 1..Len(calls) : calls[k].err \in {"nil", "error"}
    /\ (Len(calls) >= 1 /\ calls[1].err = "nil") => systemTransactions = AllSystemRecords
    /\ (Len(calls) >= 1 /\ calls[1].err # "nil") => systemTransactions = <<>>
    /\ (Len(calls) = 2 /\ calls[2].err = "nil") => bankTransactions = AllBankRecords
    /\ (Len(calls) = 2 /\ calls[2].err # "nil") => bankTransactions = <<>>

\* ----------------------------------------------------------------------
\* The matcher run twice on the same filtered inputs
\* ----------------------------------------------------------------------
\* the set of the elements of a sequence
Elements(q) == { q[k] : k \in 1..Len(q) }

\* the partition a finished run made: the matched pairs, the system-only
\* records and the bank-only records of each source
Partition ==
    [matched |-> { <<pairs[k].sys, pairs[k].bank>> : k \in 1..Len(pairs) },
     count |-> Matched,
     systemOnly |-> Elements(SystemOnly),
     bankOnly |-> [tag \in DOMAIN BankOnly |-> Elements(BankOnly[tag])]]

\* what a finished run returned: its partition, and the lists of the report
\* as the sequences they are
Outcome ==
    [partition |-> Partition,
     systemOnly |-> SystemOnly,
     bankOnly |-> BankOnly,
     details |-> Details]

\* lines 40-57 again: the matcher starts over on the filtered sets of the
\* finished run, whose outcome is kept
Rerun ==
    /\ pc = "done"
    /\ firstRun = NoRun
    /\ firstRun' = Outcome
    /\ report' = NewReport(start, end, Len(filteredSystemTx), Len(filteredBankTx))
    /\ matchedSystem' = {}
    /\ matchedBank' = {}
    /\ bi' = 1
    /\ si' = 1
    /\ systemMap' = EmptyMap
    /\ bankMap' = EmptyMap
    /\ toVisit' = {}
    /\ pairs' = <<>>
    /\ ret' = NotReturned
    /\ pc' = "pass1"
    /\ UNCHANGED <<systemFile, bankFiles, start, end, calls, systemTransactions,
                   bankTransactions, filteredSystemTx, filteredBankTx>>

NextTwoRuns == Next \/ Rerun

TwoRunSpec == Init /\ [][NextTwoRuns]_vars

\* C12: a second run of the matcher on the same filtered inputs ends with
\* the partition of the first run: the same matched pairs, the same
\* system-only records, the same bank-only records under the same sources.
C12_Idempotence ==
    (pc = "done" /\ firstRun # NoRun) => Partition = firstRun.partition

\* a second run has finished; both runs paired the records of two groups
\* of Pass 2/3, which the range loop visits in any order
C12_Witness ==
    /\ pc = "done"
    /\ firstRun # NoRun
    /\ Len(Pass23Pairs) = 2
    /\ SystemKey(Pass23Pairs[1].sys) # SystemKey(Pass23Pairs[2].sys)
    /\ firstRun.partition.count = 2

\* ----------------------------------------------------------------------
\* Pairing inside groups of equal size
\* ----------------------------------------------------------------------
Pass23Over == pc \in {"collateSystem", "collateBank", "done"}

\* the records Pass 1 left unclaimed that have the key, in the order of
\* the filtered lists
SystemGroupOf(key) ==
    SelectSeq(filteredSystemTx,
              LAMBDA tx : tx.TrxID \notin Pass1SystemIDs /\ SystemKey(tx) = key)
BankGroupOf(key) ==
    SelectSeq(filteredBankTx,
              LAMBDA tx : tx.UniqueIdentifier \notin Pass1BankIDs /\ BankKey(tx) = key)

\* the keys of the filtered records
AllKeys ==
    { SystemKey(filteredSystemTx[k]) : k \in 1..Len(filteredSystemTx) }
        \cup { BankKey(filteredBankTx[k]) : k \in 1..Len(filteredBankTx) }

\* the keys under which both sides have a group, of the same size
EqualKeys ==
    { key \in AllKeys :
        /\ SystemGroupOf(key) # <<>>
        /\ Len(SystemGroupOf(key)) = Len(BankGroupOf(key)) }

\* C21: when Pass 2/3 is over, for every key under which the system group
\* and the bank group have the same size n >= 1, the i-th system record of
\* the group, in the order of the filtered list, is paired by Pass 2/3 with
\* the i-th bank record of the group, for every i in 1..n, and with no other.
C21_EqualSizePairing ==
    Pass23Over =>
        \A key \in EqualKeys :
            \A i \in 1..Len(SystemGroupOf(key)) :
                /\ Occurrences(pairs, [sys |-> SystemGroupOf(key)[i],
                                       bank |-> BankGroupOf(key)[i],
                                       pass |-> 2]) = 1
                /\ Occurrences(PairedSystem, SystemGroupOf(key)[i]) = 1
                /\ Occurrences(PairedBank, BankGroupOf(key)[i]) = 1

\* a finished run that paired a group of two system records with a group
\* of two bank records
C21_Witness ==
    /\ pc = "done"
    /\ \E key \in EqualKeys : Len(SystemGroupOf(key)) = 2
    /\ Len(Pass23Pairs) = 2

\* ----------------------------------------------------------------------
\* References in descriptions
\* ----------------------------------------------------------------------
\* the description holds the token trxID: followed by exactly the
\* identifier id: the identifier ends the description or a blank follows it
NamesExactly(description, id) ==
    LET ref == TrxIDToken \o id
    IN  \E k \in 0..(Len(description) - Len(ref)) :
            /\ SubSeq(description, k + 1, k + Len(ref)) = ref
            /\ \/ k + Len(ref) = Len(description)
               \/ description[k + Len(ref) + 1] = " "

\* C22: Pass 1 pairs a bank record with a system record only when a
\* reference in the description names exactly the identifier of the system
\* record, never when it names a longer identifier that begins with it.
C22_ExactReference ==
    report # NoReport =>
        \A k \in 1..Len(Pass1Pairs) :
            NamesExactly(Pass1Pairs[k].bank.Description, Pass1Pairs[k].sys.TrxID)

\* ----------------------------------------------------------------------
\* The kinds of a pair
\* ----------------------------------------------------------------------
\* C23: every matched pair, of Pass 1 or of Pass 2/3, joins a system record
\* and a bank record of the same kind.
C23_KindAgreement ==
    report # NoReport =>
        \A k \in 1..Len(pairs) : pairs[k].sys.Type = pairs[k].bank.Type

\* ----------------------------------------------------------------------
\* The order of the lists of the report
\* ----------------------------------------------------------------------
\* C24: a second run on the same inputs returns the system-only list, every
\* bank-only bucket and the list of discrepancy details as the same
\* sequences as the first run, in whatever order the group keys are visited.
C24_OutputOrder ==
    (pc = "done" /\ firstRun # NoRun) =>
        /\ SystemOnly = firstRun.systemOnly
        /\ BankOnly = firstRun.bankOnly
        /\ Details = firstRun.details

\* ----------------------------------------------------------------------
\* The claim markers
\* ----------------------------------------------------------------------
\* the markers written by the first n acceptances, of either pass
SystemMarkersAfter(n) == { pairs[k].sys.TrxID : k \in 1..n }
BankMarkersAfter(n) == { pairs[k].bank.UniqueIdentifier : k \in 1..n }

\* a marker that was written is still set, and only acceptances set markers
MarkersKept ==
    /\ matchedSystem = SystemMarkersAfter(Len(pairs))
    /\ matchedBank = BankMarkersAfter(Len(pairs))

\* no acceptance writes a marker that is already set
MarkersWrittenOnce ==
    \A k \in 1..Len(pairs) :
        /\ pairs[k].sys.TrxID \notin SystemMarkersAfter(k - 1)
        /\ pairs[k].bank.UniqueIdentifier \notin BankMarkersAfter(k - 1)

\* no record in a group of Pass 2/3 has a marker set by Pass 1
NotOfferedAgain ==
    Grouped =>
        /\ \A key \in DOMAIN systemMap : \A k \in 1..Len(systemMap[key]) :
             systemMap[key][k].TrxID \notin Pass1SystemIDs
        /\ \A key \in DOMAIN bankMap : \A k \in 1..Len(bankMap[key]) :
             bankMap[key][k].UniqueIdentifier \notin Pass1BankIDs

\* the acceptances of Pass 1 come before those of Pass 2/3
PassesInOrder ==
    \A k, l \in 1..Len(pairs) : k < l => pairs[k].pass <= pairs[l].pass

\* C25: a marker once set stays set, a record whose marker Pass 1 set is in
\* no group of Pass 2/3, every acceptance finds the markers of both its
\* records unset and sets each of them for the first and only time, and
\* every acceptance of Pass 1 comes before every acceptance of Pass 2/3.
C25_ClaimMarkers ==
    report # NoReport =>
        /\ MarkersKept
        /\ MarkersWrittenOnce
        /\ NotOfferedAgain
        /\ PassesInOrder

====
